---- MODULE Spec2Model ----
(***************************************************************************)
(* Model of the grading harness of no-ai-coding-challenges:                *)
(*   src/utils.py       evaluate_on_samples, internal_evaluation,          *)
(*                      _fit_complexity, _plot_complexity_analysis         *)
(*   src/cha1_utils.py  check_solution                                     *)
(*                                                                         *)
(* Two specifications share the variables:                                 *)
(*   Spec     the evaluation drivers, one loop iteration at a time;        *)
(*   SpecFit  _fit_complexity applied to inputs drawn from bounded sets.   *)
(*                                                                         *)
(* Arithmetic.  numpy computes in float64.  The model computes the same    *)
(* quantities in exact rational arithmetic over arbitrary-precision        *)
(* naturals (sequences of limbs), so every comparison the code makes       *)
(* (std < 1e-10, a <= 0, r2 < 0.5, cv < 0.3, the ordering of R² scores)   *)
(* is decided on the exact value; float64 rounding is not modelled.        *)
(* Measurements are the rationals measurements[i] / denom, all >= 0        *)
(* (times and clamped memory deltas are never negative).  Sizes are 0 or   *)
(* powers of two, for which log2 is an exact integer.                      *)
(***************************************************************************)
EXTENDS Integers, Sequences, FiniteSets, TLC

\* ------------------------------------------------------------------------
\* Arbitrary-precision naturals: little-endian sequences of limbs in
\* 0..Base-1 with no most-significant zero limb; zero is <<>>.
\* ------------------------------------------------------------------------
Base == 10 * 1000

RECURSIVE BNorm(_)
BNorm(a) ==
    IF a = <<>> THEN <<>>
    ELSE IF a[Len(a)] = 0 THEN BNorm(SubSeq(a, 1, Len(a) - 1))
    ELSE a

RECURSIVE BNat(_)
BNat(n) == IF n = 0 THEN <<>> ELSE <<n % Base>> \o BNat(n \div Base)

RECURSIVE BAddC(_, _, _)
BAddC(a, b, c) ==
    IF a = <<>> /\ b = <<>> THEN (IF c = 0 THEN <<>> ELSE <<c>>)
    ELSE LET x == IF a = <<>> THEN 0 ELSE Head(a)
             y == IF b = <<>> THEN 0 ELSE Head(b)
             s == x + y + c
         IN  <<s % Base>> \o BAddC(IF a = <<>> THEN <<>> ELSE Tail(a),
                                   IF b = <<>> THEN <<>> ELSE Tail(b),
                                   s \div Base)

BAdd(a, b) == BAddC(a, b, 0)

RECURSIVE BCmpFrom(_, _, _)
BCmpFrom(a, b, i) ==
    IF i = 0 THEN 0
    ELSE IF a[i] < b[i] THEN -1
    ELSE IF a[i] > b[i] THEN 1
    ELSE BCmpFrom(a, b, i - 1)

\* -1, 0 or 1 as a < b, a = b, a > b
BCmp(a, b) ==
    IF Len(a) < Len(b) THEN -1
    ELSE IF Len(a) > Len(b) THEN 1
    ELSE BCmpFrom(a, b, Len(a))

BLess(a, b) == BCmp(a, b) < 0

RECURSIVE BSubC(_, _, _)
BSubC(a, b, c) ==
    IF a = <<>> THEN <<>>
    ELSE LET y == IF b = <<>> THEN 0 ELSE Head(b)
             d == Head(a) - y - c
         IN  <<IF d < 0 THEN d + Base ELSE d>>
             \o BSubC(Tail(a), IF b = <<>> THEN <<>> ELSE Tail(b),
                      IF d < 0 THEN 1 ELSE 0)

\* a - b for a >= b
BSub(a, b) == BNorm(BSubC(a, b, 0))

\* |a - b|
BDist(a, b) == IF BLess(a, b) THEN BSub(b, a) ELSE BSub(a, b)

RECURSIVE BMulLimb(_, _, _)
BMulLimb(a, d, c) ==
    IF a = <<>> THEN BNat(c)
    ELSE LET p == Head(a) * d + c
         IN  <<p % Base>> \o BMulLimb(Tail(a), d, p \div Base)

RECURSIVE BMul(_, _)
BMul(a, b) ==
    IF a = <<>> \/ b = <<>> THEN <<>>
    ELSE LET rest == BMul(a, Tail(b))
         IN  BAdd(BNorm(BMulLimb(a, Head(b), 0)),
                  IF rest = <<>> THEN <<>> ELSE <<0>> \o rest)

BSq(a) == BMul(a, a)

RECURSIVE BPow10(_)
BPow10(k) == IF k = 0 THEN <<1>> ELSE BMulLimb(BPow10(k - 1), 10, 0)

RECURSIVE BSum(_)
BSum(s) == IF s = <<>> THEN <<>> ELSE BAdd(Head(s), BSum(Tail(s)))

\* ------------------------------------------------------------------------
\* Signed rationals [sign, num, den] with num, den arbitrary-precision
\* naturals, den > 0, sign in {-1, 0, 1}; not reduced to lowest terms, so
\* they are compared by cross-multiplication, never by record equality.
\* ------------------------------------------------------------------------
Rat(sign, num, den) == [sign |-> IF num = <<>> THEN 0 ELSE sign, num |-> num, den |-> den]

RatZero == Rat(0, <<>>, <<1>>)
RatOne == Rat(1, <<1>>, <<1>>)

\* r < s, r = s for non-negative rationals
RatLess(r, s) == BLess(BMul(r.num, s.den), BMul(s.num, r.den))
RatEq(r, s) == r.sign = s.sign /\ BCmp(BMul(r.num, s.den), BMul(s.num, r.den)) = 0

\* ------------------------------------------------------------------------
\* _fit_complexity (src/utils.py:77-170)
\* ------------------------------------------------------------------------
RECURSIVE Log2(_)
\* np.log2 on a power of two
Log2(n) == IF n <= 1 THEN 0 ELSE 1 + Log2(n \div 2)

RECURSIVE Pow2(_)
Pow2(k) == IF k = 0 THEN 1 ELSE 2 * Pow2(k - 1)

Max(a, b) == IF a >= b THEN a ELSE b
Min(a, b) == IF a <= b THEN a ELSE b

\* the cap of the exponent of O(2^n)
ExpCap == 30

\* the candidate menu, in evaluation order
Complexities ==
    <<"O(1)", "O(log n)", "O(n)", "O(n log n)", "O(n^2)", "O(n^3)", "O(2^n)">>

\* the transform function of each candidate, applied to one size
Transform(name, n) ==
    CASE name = "O(1)" -> 1
      [] name = "O(log n)" -> Log2(Max(n, 1))
      [] name = "O(n)" -> n
      [] name = "O(n log n)" -> n * Log2(Max(n, 1))
      [] name = "O(n^2)" -> n * n
      [] name = "O(n^3)" -> n * n * n
      [] name = "O(2^n)" -> Pow2(Min(n, ExpCap))

\* n_safe = np.maximum(n, 1)
NSafe(n_values) == [i \in DOMAIN n_values |-> Max(n_values[i], 1)]

BSeq(s) == [i \in DOMAIN s |-> BNat(s[i])]
BDot(s, t) == BSum([i \in DOMAIN s |-> BMul(s[i], t[i])])

\* N * sum(u*v) - sum(u) * sum(v) as the pair of its two terms: N^2 times the
\* covariance of u and v (the variance when u = v)
CrossL(u, v) == BMul(BNat(Len(u)), BDot(u, v))
CrossR(u, v) == BMul(BSum(u), BSum(v))
NVar(u) == BSub(CrossL(u, u), CrossR(u, u))

\* the decimal tolerance 1e-10 is 1 / 10^TolDigits
TolDigits == 10
\* 1 / 1e-10 and its square
TolInv == BPow10(TolDigits)
TolInvSq == BPow10(2 * TolDigits)

\* np.std(v) < 1e-10 for N values v[i] = u[i] / d with nvar = NVar(u):
\* nvar / (N d)^2 < 1e-20
StdBelowTol(nvar, nd) == BLess(BMul(nvar, TolInvSq), BSq(nd))

\* y = np.array(measurements) with the sums the function takes of it;
\* measurement i is Y[i] / D
YStats(measurements, denom) ==
    LET Y == BSeq(measurements)
        D == BNat(denom)
        nd == BMul(BNat(Len(Y)), D)
        vy == NVar(Y)
    IN  [Y |-> Y, D |-> D, nd |-> nd, sum |-> BSum(Y), nvar |-> vy,
         \* ss_tot = sum((y - mean(y))^2) = nvar / (N D^2) against 1e-10
         ss_tot_cmp |-> BCmp(BMul(vy, TolInv), BMul(nd, D))]

\* cv = np.std(y) / (np.mean(y) + 1e-10) < threshold CvNum / CvDen:
\*   CvDen * sqrt(nvar) < CvNum * (sum(Y) + N D 1e-10), both sides >= 0
CvNum == 3
CvDen == 10
CvLow(ys) ==
    BLess(BMul(BSq(BMul(BNat(CvDen), TolInv)), ys.nvar),
          BSq(BMul(BNat(CvNum), BAdd(BMul(TolInv, ys.sum), ys.nd))))

\* np.mean(y), the parameter of the constant model
MeanY(ys) == Rat(1, ys.sum, ys.nd)

\* r2 = 0.0 if ss_tot > 1e-10 else 1.0
ConstantR2(ys) == IF ys.ss_tot_cmp > 0 THEN RatZero ELSE RatOne

\* the O(1) branch: (name, func, (mean_y, 0), r2)
ConstantResult(ys) ==
    [name |-> "O(1)", a |-> MeanY(ys), b |-> RatZero, r2 |-> ConstantR2(ys)]

\* a plausible slip: no candidate rejected for its slope
SlopeNeverRejected(sign) == FALSE

\* `if a <= 0: continue`, a = cov / (NVar(x) D) the least-squares slope:
\* sign is the sign of the covariance of x and y
SlopeRejected(sign) == sign <= 0

\* the regression branch for one non-constant candidate with transformed
\* sizes x; <<>> when the candidate is skipped, else <<its result>>
RegressionResult(name, x, ys) ==
    LET vx == NVar(x)
        cl == CrossL(x, ys.Y)
        cr == CrossR(x, ys.Y)
        cov == BDist(cl, cr)
        \* b = mean(y) - a mean(x) = (sum(Y) vx - cov sum(x)) / (N D vx)
        bl == BMul(ys.sum, vx)
        br == BMul(cov, BSum(x))
        \* ss_res = (nvar vx - cov^2) / (vx N D^2)
        resNum == BSub(BMul(ys.nvar, vx), BSq(cov))
        r2 == IF ys.ss_tot_cmp < 0
              THEN IF BLess(BMul(resNum, TolInv), BMul(vx, BMul(ys.nd, ys.D)))
                   THEN RatOne ELSE RatZero
              ELSE Rat(1, BSq(cov), BMul(vx, ys.nvar))
    IN  IF StdBelowTol(vx, BNat(Len(x))) THEN <<>>
        ELSE IF SlopeRejected(BCmp(cl, cr)) THEN <<>>
        ELSE <<[name |-> name,
                a |-> Rat(BCmp(cl, cr), cov, BMul(vx, ys.D)),
                b |-> Rat(BCmp(bl, br), BDist(bl, br), BMul(ys.nd, vx)),
                r2 |-> r2]>>

\* one pass of the loop over the candidates
CandidateResult(name, n_safe, ys) ==
    IF name = "O(1)" THEN <<ConstantResult(ys)>>
    ELSE RegressionResult(name,
                          BSeq([i \in DOMAIN n_safe |-> Transform(name, n_safe[i])]),
                          ys)

RECURSIVE ResultsFrom(_, _, _)
\* the list `results` after the loop, candidates k..7
ResultsFrom(k, n_safe, ys) ==
    IF k > Len(Complexities) THEN <<>>
    ELSE CandidateResult(Complexities[k], n_safe, ys) \o ResultsFrom(k + 1, n_safe, ys)

\* a plausible slip: an unstable sort, a later entry put before its equals
InsertDescBeforeEquals(sorted, e) ==
    LET after == {i \in 1..Len(sorted) : ~RatLess(e.r2, sorted[i].r2)}
        k == IF after = {} THEN Len(sorted) + 1
             ELSE CHOOSE i \in after : \A j \in after : i <= j
    IN  SubSeq(sorted, 1, k - 1) \o <<e>> \o SubSeq(sorted, k, Len(sorted))

\* results.sort(key=r2, reverse=True): a stable sort, equal keys keep their order
InsertDesc(sorted, e) ==
    LET after == {i \in 1..Len(sorted) : RatLess(sorted[i].r2, e.r2)}
        k == IF after = {} THEN Len(sorted) + 1
             ELSE CHOOSE i \in after : \A j \in after : i <= j
    IN  SubSeq(sorted, 1, k - 1) \o <<e>> \o SubSeq(sorted, k, Len(sorted))

\* a plausible slip: the list left unsorted
Unsorted(s) == s

RECURSIVE SortDesc(_)
SortDesc(s) ==
    IF s = <<>> THEN <<>>
    ELSE InsertDesc(SortDesc(SubSeq(s, 1, Len(s) - 1)), s[Len(s)])

\* best[3] < 0.5
HalfNum == 1
HalfDen == 2
R2Low(r) == BLess(BMul(BNat(HalfDen), r.num), BMul(BNat(HalfNum), r.den))

\* the returned tuple (name, func, params, fourth); func is fixed by name.
\* fourth is the list of results on every return but the noise override's
\* `return r`, where r is the O(1) entry and its fourth element is r2.
FallbackReturn(ys, results) ==
    [name |-> "O(1)", a |-> MeanY(ys), b |-> RatZero,
     fourth |-> "results", results |-> results, r2 |-> RatZero]

\* a plausible slip: the override taken on a low R² alone
NoiseOverrideOnR2Alone(best, ys) == R2Low(best.r2)

\* `if best[3] < 0.5 and cv < 0.3`
NoiseOverride(best, ys) == R2Low(best.r2) /\ CvLow(ys)

\* lines 154-170: the selection from the list of results
SelectFit(results, ys) ==
    IF results = <<>> THEN FallbackReturn(ys, <<>>)
    ELSE LET best == results[1]
             consts == {i \in 1..Len(results) : results[i].name = "O(1)"}
         IN  IF NoiseOverride(best, ys)
             THEN IF consts # {}
                  THEN LET r == results[CHOOSE i \in consts :
                                           \A j \in consts : i <= j]
                       IN  [name |-> r.name, a |-> r.a, b |-> r.b,
                            fourth |-> "r2", results |-> <<>>, r2 |-> r.r2]
                  ELSE FallbackReturn(ys, results)
             ELSE [name |-> best.name, a |-> best.a, b |-> best.b,
                   fourth |-> "results", results |-> results, r2 |-> RatZero]

\* a plausible slip: the early return missing, every series is fitted
NeverConstantSeries(ys) == FALSE

\* lines 88-90: `if np.std(y) < 1e-10`
IsConstantSeries(ys) == StdBelowTol(ys.nvar, ys.nd)

\* one call: ret is the returned tuple, results the local `results` at the
\* return (empty on the early return, else the sorted list)
FitTrace(n_values_, measurements_, denom_) ==
    LET ys == YStats(measurements_, denom_)
    IN  IF IsConstantSeries(ys)
        THEN [ret |-> FallbackReturn(ys, <<>>), results |-> <<>>]
        ELSE LET results == SortDesc(ResultsFrom(1, NSafe(n_values_), ys))
             IN  [ret |-> SelectFit(results, ys), results |-> results]

FitComplexity(n_values_, measurements_, denom_) ==
    FitTrace(n_values_, measurements_, denom_).ret

\* ------------------------------------------------------------------------
\* State
\* ------------------------------------------------------------------------
VARIABLES
    driver,         \* "samples": evaluate_on_samples, "internal": internal_evaluation,
                    \* "none": no driver runs (SpecFit)
    file_exists,    \* os.path.exists(test_file_path)
    tests,          \* samples / parse_tests(test_file_path): the test cases in
                    \* order, each abstracted to the size get_input_size gives it
    get_input_size, \* TRUE iff the size extractor is not None
    plot,           \* the plot argument
    pc,             \* "start", "loop" (at the head of the loop), "check" (the
                    \* solution has returned), "after_loop" (after a break),
                    \* "done" (the driver has returned)
    test_num,       \* the loop index i / test_num of the current iteration
    all_passed,
    time_by_n,      \* size -> list of elapsed times
    memory_by_n,    \* size -> list of recorded memory deltas
    raw_by_n,       \* history: size -> list of mem_after - mem_before, unclamped
    solved,         \* history: the test numbers my_solution was invoked on
    checked,        \* history: the test numbers check_solution was invoked on
    cost,           \* history: elapsed time and memory delta of the my_solution call of
                    \* the iteration under way or failed, <<>> otherwise
    verdict,        \* the check_result that failed a test case, <<>> if none did
    output,         \* the messages printed, in order
    ret,            \* the value returned: "none" while running, "True", "False"
    fit_calls,      \* history: the number of _fit_complexity calls made
    estimate,       \* what _plot_complexity_analysis returned, <<>> if not called
    n_values,       \* SpecFit: the arguments of _fit_complexity ...
    measurements,
    denom,          \* ... measurement i is measurements[i] / denom
    fit,            \* SpecFit: the returned tuple, <<>> before the call
    ranked          \* SpecFit: the local `results` at the return

driverVars == <<driver, file_exists, tests, get_input_size, plot, pc, test_num,
                all_passed, time_by_n, memory_by_n, raw_by_n, solved, checked,
                cost, verdict, output, ret, fit_calls, estimate>>
fitVars == <<n_values, measurements, denom, fit, ranked>>
vars == <<driverVars, fitVars>>

\* ------------------------------------------------------------------------
\* Bounds of the model
\* ------------------------------------------------------------------------
\* at most this many test cases in a run
MaxTests == 3
\* the configured limits: time_limit in microseconds, memory_limit in bytes
TimeLimit == 0
MemoryLimit == 100
\* the perf_counter readings, in microseconds
ClockReadings == {0, 1}
\* the resident-set sizes, in bytes, that the two probes around one call may
\* read, as pairs <<before, after>>: memory freed, unchanged and grown
RssPairs == {<<50, 0>>, <<0, 0>>, <<0, 200>>}
\* the sizes of the test cases of a run: all of one size, all of different
\* sizes, or two of each size
SizePatterns == {"same", "distinct", "pairs"}
SizeAt(pattern, i) ==
    CASE pattern = "same" -> 1
      [] pattern = "distinct" -> Pow2(i - 1)
      [] pattern = "pairs" -> Pow2((i - 1) \div 2)

\* len(samples) / len(tests)
n_tests == Len(tests)

\* ------------------------------------------------------------------------
\* The evaluation drivers: evaluate_on_samples (src/utils.py:15-74) and
\* internal_evaluation (src/utils.py:315-429)
\* ------------------------------------------------------------------------
Msg(kind, at) == [kind |-> kind, at |-> at]

\* defaultdict(list)[n].append(v)
Append1(d, n, v) ==
    IF n \in DOMAIN d THEN [d EXCEPT ![n] = Append(@, v)]
    ELSE [k \in DOMAIN d \cup {n} |-> IF k = n THEN <<v>> ELSE d[k]]

\* a plausible slip: the delta recorded unclamped
RawDelta(mem_before, mem_after) == mem_after - mem_before

\* max(0, mem_after - mem_before)
ClampedDelta(mem_before, mem_after) == Max(0, mem_after - mem_before)

\* cha1_utils.check_solution: the limits are compared with the time and the
\* memory growth between its own two probes (t0, r0) and (t1, r1)
IsTimeEfficient(t0, t1, tmax) == t1 - t0 <= tmax
IsMemoryEfficient(r0, r1, rmax) == r1 - r0 <= rmax

\* a plausible slip: the accuracy branch missing
FailureKindNoAccuracy(v) ==
    IF ~v.time_ok THEN "time_exceeded"
    ELSE IF ~v.memory_ok THEN "memory_exceeded"
    ELSE ""

\* a plausible slip: the memory branch before the time branch
FailureKindMemoryFirst(v) ==
    IF ~v.accurate THEN (IF v.message # "" THEN "custom" ELSE "wrong_answer")
    ELSE IF ~v.memory_ok THEN "memory_exceeded"
    ELSE IF ~v.time_ok THEN "time_exceeded"
    ELSE ""

\* the branch the drivers take on a check_result: the message kind printed,
\* "" when the test case passes
FailureKind(v) ==
    IF ~v.accurate THEN (IF v.message # "" THEN "custom" ELSE "wrong_answer")
    ELSE IF ~v.time_ok THEN "time_exceeded"
    ELSE IF ~v.memory_ok THEN "memory_exceeded"
    ELSE ""

DriverInit ==
    /\ driver \in {"samples", "internal"}
    /\ file_exists \in BOOLEAN
    /\ \E k \in 0..MaxTests, pattern \in SizePatterns :
          tests = [i \in 1..k |-> SizeAt(pattern, i)]
    /\ get_input_size \in BOOLEAN
    /\ plot \in BOOLEAN
    \* evaluate_on_samples has no file, size extractor or plot argument
    /\ driver = "samples" => file_exists /\ ~get_input_size /\ ~plot
    /\ pc = "start"
    /\ test_num = 0
    /\ all_passed = TRUE
    /\ time_by_n = <<>>
    /\ memory_by_n = <<>>
    /\ raw_by_n = <<>>
    /\ solved = {}
    /\ checked = {}
    /\ cost = <<>>
    /\ verdict = <<>>
    /\ output = <<>>
    /\ ret = "none"
    /\ fit_calls = 0
    /\ estimate = <<>>

FitIdle ==
    /\ n_values = <<>>
    /\ measurements = <<>>
    /\ denom = 1
    /\ fit = <<>>
    /\ ranked = <<>>

Init == DriverInit /\ FitIdle

\* internal_evaluation, lines 354-356
StartFileMissing ==
    /\ pc = "start" /\ driver = "internal" /\ ~file_exists
    /\ output' = Append(output, Msg("file_not_found", 0))
    /\ ret' = "False"
    /\ pc' = "done"
    /\ UNCHANGED <<driver, file_exists, tests, get_input_size, plot, test_num,
                   all_passed, time_by_n, memory_by_n, raw_by_n, solved, checked,
                   cost, verdict, fit_calls, estimate, fitVars>>

\* internal_evaluation, lines 361-363
StartNoTests ==
    /\ pc = "start" /\ driver = "internal" /\ file_exists /\ n_tests = 0
    /\ output' = Append(output, Msg("no_tests", 0))
    /\ ret' = "False"
    /\ pc' = "done"
    /\ UNCHANGED <<driver, file_exists, tests, get_input_size, plot, test_num,
                   all_passed, time_by_n, memory_by_n, raw_by_n, solved, checked,
                   cost, verdict, fit_calls, estimate, fitVars>>

\* both drivers reach their loop
StartLoop ==
    /\ pc = "start"
    /\ driver = "internal" => file_exists /\ n_tests > 0
    /\ pc' = "loop"
    /\ UNCHANGED <<driver, file_exists, tests, get_input_size, plot, test_num,
                   all_passed, time_by_n, memory_by_n, raw_by_n, solved, checked,
                   cost, verdict, output, ret, fit_calls, estimate, fitVars>>

\* a plausible slip: the except branch prints and falls through to the check
SolutionRaisesFallsThrough ==
    /\ pc = "loop" /\ test_num < n_tests
    /\ test_num' = test_num + 1
    /\ solved' = solved \cup {test_num + 1}
    /\ output' = Append(output, Msg("runtime_error", test_num + 1))
    /\ cost' = [time |-> 0, memory |-> 0]
    /\ pc' = "check"
    /\ UNCHANGED <<driver, file_exists, tests, get_input_size, plot, all_passed,
                   time_by_n, memory_by_n, raw_by_n, checked, verdict, ret,
                   fit_calls, estimate, fitVars>>

\* my_solution raises on the next test case: the except branch
SolutionRaises ==
    /\ pc = "loop" /\ test_num < n_tests
    /\ test_num' = test_num + 1
    /\ solved' = solved \cup {test_num + 1}
    /\ output' = Append(output, Msg("runtime_error", test_num + 1))
    /\ ret' = "False"
    /\ pc' = "done"
    /\ UNCHANGED <<driver, file_exists, tests, get_input_size, plot, all_passed,
                   time_by_n, memory_by_n, raw_by_n, checked, cost, verdict,
                   fit_calls, estimate, fitVars>>

\* my_solution returns on the next test case, of size n, between the probes
\* (t_start, mem_before) and (t_end, mem_after); internal_evaluation records
\* the metrics when it has a size extractor
SolutionReturns ==
    /\ pc = "loop" /\ test_num < n_tests
    /\ \E t_start \in ClockReadings, t_end \in ClockReadings, rss \in RssPairs :
         LET n == tests[test_num + 1]
             mem_before == rss[1]
             mem_after == rss[2]
         IN  /\ t_start <= t_end
             /\ cost' = [time |-> t_end - t_start, memory |-> mem_after - mem_before]
             /\ IF driver = "internal" /\ get_input_size
                THEN /\ time_by_n' = Append1(time_by_n, n, t_end - t_start)
                     /\ memory_by_n' =
                           Append1(memory_by_n, n, ClampedDelta(mem_before, mem_after))
                     /\ raw_by_n' = Append1(raw_by_n, n, mem_after - mem_before)
                ELSE UNCHANGED <<time_by_n, memory_by_n, raw_by_n>>
    /\ test_num' = test_num + 1
    /\ solved' = solved \cup {test_num + 1}
    /\ pc' = "check"
    /\ UNCHANGED <<driver, file_exists, tests, get_input_size, plot, all_passed,
                   checked, verdict, output, ret, fit_calls, estimate, fitVars>>

\* check_solution(test_input, user_result, proc, time_limit, memory_limit) and
\* the branch on its result: a pass goes on with the loop; a failure prints
\* its message, clears all_passed and breaks.  The accuracy verdict and the optional custom
\* message depend on the opaque test case and result; the efficiency flags
\* are those of cha1_utils.check_solution.
CheckAndJudge ==
    /\ pc = "check"
    /\ \E accurate \in BOOLEAN, message \in {"", "custom text"},
          t0 \in ClockReadings, t1 \in ClockReadings, rss \in RssPairs :
         LET v == [accurate |-> accurate,
                   time_ok |-> IsTimeEfficient(t0, t1, TimeLimit),
                   memory_ok |-> IsMemoryEfficient(rss[1], rss[2], MemoryLimit),
                   message |-> message]
         IN  /\ t0 <= t1
             /\ IF FailureKind(v) # ""
                THEN /\ output' = Append(output, Msg(FailureKind(v), test_num))
                     /\ all_passed' = FALSE
                     /\ pc' = "after_loop"
                     /\ verdict' = v
                     /\ UNCHANGED cost
                ELSE /\ pc' = "loop"
                     /\ verdict' = <<>>
                     /\ cost' = <<>>
                     /\ UNCHANGED <<output, all_passed>>
    /\ checked' = checked \cup {test_num}
    /\ UNCHANGED <<driver, file_exists, tests, get_input_size, plot, test_num,
                   time_by_n, memory_by_n, raw_by_n, solved, ret, fit_calls,
                   estimate, fitVars>>

\* ------------------------------------------------------------------------
\* _plot_complexity_analysis (src/utils.py:173-312), the part that computes
\* the two estimates; the drawing is not modelled
\* ------------------------------------------------------------------------
RECURSIVE SortedKeys(_)
\* sorted(time_by_n.keys())
SortedKeys(S) ==
    IF S = {} THEN <<>>
    ELSE LET m == CHOOSE x \in S : \A y \in S : x <= y
         IN  <<m>> \o SortedKeys(S \ {m})

RECURSIVE SumSeq(_)
SumSeq(s) == IF s = <<>> THEN 0 ELSE Head(s) + SumSeq(Tail(s))

RECURSIVE LenProduct(_, _)
\* the product of the bucket lengths, a common denominator of the bucket means
LenProduct(d, keys) ==
    IF keys = <<>> THEN 1 ELSE Len(d[Head(keys)]) * LenProduct(d, Tail(keys))

\* np.mean of each bucket, as numerators over the denominator LenProduct
BucketMeans(d, keys) ==
    [i \in DOMAIN keys |->
        SumSeq(d[keys[i]]) * (LenProduct(d, keys) \div Len(d[keys[i]]))]

\* bytes per KB: avg_memory is np.mean(bucket) / 1024
BytesPerKB == 1024

\* (time_fit[0], memory_fit[0]); clock readings are microseconds, so
\* np.mean(bucket) * 1e6 of a bucket in seconds is the mean of the readings
PlotComplexityAnalysis(tbn, mbn) ==
    LET keys == SortedKeys(DOMAIN tbn)
        time_fit == FitComplexity(keys, BucketMeans(tbn, keys), LenProduct(tbn, keys))
        memory_fit == FitComplexity(keys, BucketMeans(mbn, keys),
                                    BytesPerKB * LenProduct(mbn, keys))
        all_zero_memory == \A i \in DOMAIN keys : BucketMeans(mbn, keys)[i] = 0
    IN  <<time_fit.name, IF all_zero_memory THEN "O(1)" ELSE memory_fit.name>>

\* a plausible slip: the analysis no longer nested under `if all_passed`
RunsAnalysisUnguarded ==
    driver = "internal" /\ plot /\ get_input_size /\ DOMAIN time_by_n # {}

\* `if all_passed:` ... `if plot and get_input_size is not None and time_by_n:`
RunsAnalysis ==
    all_passed /\ driver = "internal" /\ plot /\ get_input_size
    /\ DOMAIN time_by_n # {}

\* after the loop, left by a break or by running out of test cases: the
\* summary message and the complexity analysis `if all_passed`, the return
AfterLoop ==
    /\ pc = "after_loop" \/ (pc = "loop" /\ test_num = n_tests)
    /\ output' = IF all_passed THEN Append(output, Msg("all_passed", n_tests))
                 ELSE output
    /\ IF RunsAnalysis
       THEN /\ estimate' = PlotComplexityAnalysis(time_by_n, memory_by_n)
            /\ fit_calls' = fit_calls + 2
       ELSE UNCHANGED <<estimate, fit_calls>>
    /\ ret' = IF all_passed THEN "True" ELSE "False"
    /\ pc' = "done"
    /\ UNCHANGED <<driver, file_exists, tests, get_input_size, plot, test_num,
                   all_passed, time_by_n, memory_by_n, raw_by_n, solved, checked,
                   cost, verdict, fitVars>>

Next ==
    \/ StartFileMissing
    \/ StartNoTests
    \/ StartLoop
    \/ SolutionRaises
    \/ SolutionReturns
    \/ CheckAndJudge
    \/ AfterLoop

Spec == Init /\ [][Next]_vars

\* ------------------------------------------------------------------------
\* SpecFit: _fit_complexity on bounded inputs
\* ------------------------------------------------------------------------
\* at most this many distinct sizes
MaxPoints == 3
\* measurement numerators are 0..MaxMeasure
MaxMeasure == 3
\* measurements in whole units, or in millionths of a unit
FitDenoms == {1, 1000 * 1000}

\* the sizes: 0 and powers of two
FitSizes == {0, 1, 2, 4, 8}

\* the sizes and measurements of the end-to-end scenarios
ScenarioSizes == <<1, 2, 4, 8, 16, 32>>
ScenarioConstant == <<1, 1, 1, 1, 1, 1>>
ScenarioLinear == <<1, 2, 4, 8, 16, 32>>
ScenarioQuadratic == <<1, 4, 16, 64, 256, 1024>>

FitInit ==
    /\ \/ /\ \E k \in 1..MaxPoints :
               /\ n_values \in {s \in [1..k -> FitSizes] :
                                   \A i \in 1..k : \A j \in 1..k : i < j => s[i] < s[j]}
               /\ measurements \in [1..k -> 0..MaxMeasure]
          /\ denom \in FitDenoms
       \/ /\ n_values = ScenarioSizes
          /\ measurements \in {ScenarioConstant, ScenarioLinear, ScenarioQuadratic}
          /\ denom = 1
    /\ fit = <<>>
    /\ ranked = <<>>
    /\ driver = "none"
    /\ file_exists = TRUE
    /\ tests = <<>>
    /\ get_input_size = FALSE
    /\ plot = FALSE
    /\ pc = "done"
    /\ test_num = 0
    /\ all_passed = TRUE
    /\ time_by_n = <<>>
    /\ memory_by_n = <<>>
    /\ raw_by_n = <<>>
    /\ solved = {}
    /\ checked = {}
    /\ cost = <<>>
    /\ verdict = <<>>
    /\ output = <<>>
    /\ ret = "none"
    /\ fit_calls = 0
    /\ estimate = <<>>

\* one call _fit_complexity(n_values, measurements)
Estimate ==
    /\ driver = "none" /\ fit = <<>>
    /\ LET tr == FitTrace(n_values, measurements, denom)
       IN  /\ fit' = tr.ret
           /\ ranked' = tr.results
    /\ UNCHANGED <<driverVars, n_values, measurements, denom>>

NextFit == Estimate

SpecFit == FitInit /\ [][NextFit]_vars

\* ------------------------------------------------------------------------
\* Properties of the drivers (Spec)
\* ------------------------------------------------------------------------
LastOutput == output[Len(output)]
Failed == verdict # <<>>

\* C1: when test case k is the first whose verdict is inaccurate, the driver
\* prints one failure message, during iteration k, returns False, and the
\* solution has been invoked on test cases 1..k only.
AccuracyFailureHalts ==
    (Failed /\ ~verdict.accurate) =>
        /\ Len(output) = 1
        /\ LastOutput.kind \in {"custom", "wrong_answer"}
        /\ solved = 1..LastOutput.at
        /\ checked = 1..LastOutput.at
        /\ pc \in {"after_loop", "done"}
        /\ ~all_passed
        /\ pc = "done" => ret = "False"

\* C1 witness: an accuracy failure at test case 2 of 3, the driver returned
AccuracyFailureAtSecondOfThree ==
    /\ Failed /\ ~verdict.accurate
    /\ n_tests = 3 /\ LastOutput.at = 2
    /\ pc = "done" /\ ret = "False" /\ solved = {1, 2}

\* C2: when the solution raises on test case k the run ends with the single
\* message "runtime error" (no wrong-answer or limit message), returns False,
\* check_solution was called on 1..k-1 only and no verdict for k exists, and
\* the solution was invoked on 1..k only.
RuntimeErrorHalts ==
    \A i \in DOMAIN output :
        output[i].kind = "runtime_error" =>
            /\ Len(output) = 1
            /\ pc = "done" /\ ret = "False"
            /\ solved = 1..output[i].at
            /\ checked = 1..(output[i].at - 1)
            /\ verdict = <<>>
            /\ fit_calls = 0

\* C2 witness: a runtime error at test case 2 of 3
RuntimeErrorAtSecondOfThree ==
    /\ output = <<Msg("runtime_error", 2)>>
    /\ n_tests = 3 /\ checked = {1} /\ ret = "False"

\* C3: the failure message is that of the first false field of the verdict in
\* the order accuracy, time, memory.
VerdictPriority ==
    Failed =>
        /\ ~verdict.accurate =>
               LastOutput.kind = IF verdict.message # "" THEN "custom"
                                 ELSE "wrong_answer"
        /\ (verdict.accurate /\ ~verdict.time_ok) =>
               LastOutput.kind = "time_exceeded"
        /\ (verdict.accurate /\ verdict.time_ok /\ ~verdict.memory_ok) =>
               LastOutput.kind = "memory_exceeded"
        /\ ~(verdict.accurate /\ verdict.time_ok /\ verdict.memory_ok)

\* C3 witness: accurate, over both limits, reported as time exceeded
BothLimitsReportedAsTime ==
    /\ Failed
    /\ verdict.accurate /\ ~verdict.time_ok /\ ~verdict.memory_ok
    /\ LastOutput.kind = "time_exceeded"

\* C4: _fit_complexity has been called only if the loop ran over every test
\* case and each passed: no runtime error, no failing verdict, the only
\* message the summary, the result True.
EstimatorOnlyAfterAllPass ==
    fit_calls > 0 =>
        /\ pc = "done" /\ ret = "True" /\ all_passed
        /\ solved = 1..n_tests /\ checked = 1..n_tests
        /\ ~Failed
        /\ output = <<Msg("all_passed", n_tests)>>

\* C4 witness: three test cases passed and the two fits were made
EstimatedAfterThreePasses ==
    /\ fit_calls = 2 /\ n_tests = 3 /\ estimate # <<>>
    /\ Cardinality(DOMAIN time_by_n) = 3

\* C5 (the claim as stated): the efficiency flags of a verdict are those of
\* the cost measured around the solution invocation.
VerdictReflectsSolutionCost ==
    Failed =>
        /\ verdict.time_ok = (cost.time <= TimeLimit)
        /\ verdict.memory_ok = (cost.memory <= MemoryLimit)

\* C6: every recorded memory sample is max(0, mem_after - mem_before), so
\* none is negative.
MemorySamplesClamped ==
    /\ DOMAIN memory_by_n = DOMAIN raw_by_n
    /\ \A n \in DOMAIN memory_by_n :
          /\ Len(memory_by_n[n]) = Len(raw_by_n[n])
          /\ \A i \in DOMAIN memory_by_n[n] :
                /\ memory_by_n[n][i] >= 0
                /\ memory_by_n[n][i] =
                      IF raw_by_n[n][i] < 0 THEN 0 ELSE raw_by_n[n][i]

\* C6 witness: raw deltas -50, 0, 200 at one size recorded as 0, 0, 200
ScenarioDeltasClamped ==
    \E n \in DOMAIN memory_by_n :
        raw_by_n[n] = <<-50, 0, 200>> /\ memory_by_n[n] = <<0, 0, 200>>

\* ------------------------------------------------------------------------
\* Properties of _fit_complexity (SpecFit)
\* ------------------------------------------------------------------------
Fitted == fit # <<>>
AllEqual(s) == \A i \in DOMAIN s : s[i] = s[1]

\* the R² the returned tuple carries for the returned model: its fourth
\* element, or the score of its entry in the list of results
CarriesR2(f, r) ==
    \/ f.fourth = "r2" /\ RatEq(f.r2, r)
    \/ /\ f.fourth = "results"
       /\ \E i \in DOMAIN f.results :
             f.results[i].name = f.name /\ RatEq(f.results[i].r2, r)

SelectedScalePositive == Fitted => fit.a.sign > 0

\* C8 (amended): a selected model other than O(1), and every such model in the
\* list of results, has a fitted scale a > 0; O(1) carries the mean in place
\* of a.
SelectedSlopePositive ==
    Fitted =>
        /\ fit.name # "O(1)" => fit.a.sign > 0
        /\ fit.name = "O(1)" => RatEq(fit.a, MeanY(YStats(measurements, denom)))
        /\ \A i \in DOMAIN ranked :
              ranked[i].name # "O(1)" => ranked[i].a.sign > 0

\* the R² candidate k would score were it not rejected for its slope, when it
\* is: <<>> if it is not rejected for its slope
RejectedScore(k) ==
    LET ys == YStats(measurements, denom)
        x == BSeq([i \in DOMAIN n_values |->
                      Transform(Complexities[k], NSafe(n_values)[i])])
        vx == NVar(x)
        cl == CrossL(x, ys.Y)
        cr == CrossR(x, ys.Y)
    IN  IF vx # <<>> /\ BCmp(cl, cr) < 0
        THEN <<Rat(1, BSq(BDist(cl, cr)), BMul(vx, ys.nvar))>>
        ELSE <<>>

\* C8 witness: a non-constant model is selected while a candidate rejected
\* for its negative slope would have scored a higher R²
RejectedWouldHaveWon ==
    /\ Fitted /\ ranked # <<>>
    /\ fit.name # "O(1)"
    /\ \E k \in 2..Len(Complexities) :
          /\ RejectedScore(k) # <<>>
          /\ RatLess(ranked[1].r2, RejectedScore(k)[1])

\* C9: the three end-to-end scenarios on sizes 1, 2, 4, 8, 16, 32.
ScenariosClassified ==
    (Fitted /\ n_values = ScenarioSizes /\ denom = 1) =>
        /\ measurements = ScenarioConstant => fit.name = "O(1)"
        /\ measurements = ScenarioLinear => fit.name = "O(n)"
        /\ measurements = ScenarioQuadratic => fit.name = "O(n^2)"

\* C9 witness: the quadratic scenario fitted as O(n^2)
QuadraticScenarioFitted ==
    /\ Fitted /\ n_values = ScenarioSizes /\ measurements = ScenarioQuadratic
    /\ fit.name = "O(n^2)"

\* C10: when models are ranked, the result is O(1) if the top-ranked model
\* has R² < 0.5 and cv < 0.3, and the top-ranked model otherwise.
NoiseOverrideRule ==
    (Fitted /\ ranked # <<>>) =>
        IF R2Low(ranked[1].r2) /\ CvLow(YStats(measurements, denom))
        THEN fit.name = "O(1)"
        ELSE /\ fit.name = ranked[1].name
             /\ fit.a = ranked[1].a /\ fit.b = ranked[1].b

\* C10 witness: a non-constant model ranks first with R² < 0.5, cv < 0.3,
\* and O(1) is returned
OverrideTaken ==
    /\ Fitted /\ ranked # <<>>
    /\ ranked[1].name # "O(1)"
    /\ R2Low(ranked[1].r2) /\ CvLow(YStats(measurements, denom))
    /\ fit.name = "O(1)"

\* the place of a model in the candidate menu
MenuIndex(name) == CHOOSE k \in DOMAIN Complexities : Complexities[k] = name

\* C11: the surviving models are ranked by R² descending, models with equal
\* R² in menu order; so the top-ranked model is the earliest in the menu
\* among those with the highest R², and it is the model returned unless the
\* noise override replaces it by O(1).
RankingStable ==
    (Fitted /\ ranked # <<>>) =>
        /\ \A i \in DOMAIN ranked : \A j \in DOMAIN ranked :
              i < j =>
                 /\ ~RatLess(ranked[i].r2, ranked[j].r2)
                 /\ ~RatLess(ranked[j].r2, ranked[i].r2) =>
                       MenuIndex(ranked[i].name) < MenuIndex(ranked[j].name)
        /\ \A j \in DOMAIN ranked :
              ~RatLess(ranked[j].r2, ranked[1].r2) =>
                 MenuIndex(ranked[1].name) <= MenuIndex(ranked[j].name)
        /\ ~(R2Low(ranked[1].r2) /\ CvLow(YStats(measurements, denom))) =>
              fit.name = ranked[1].name

\* C11 witness: O(1), O(log n) and O(n) tie for the highest R² and rank in
\* that order, and O(1), the earliest, is returned
TopThreeTiedInMenuOrder ==
    /\ Fitted /\ Len(ranked) >= 3
    /\ ~RatLess(ranked[3].r2, ranked[1].r2)
    /\ ranked[1].name = "O(1)" /\ ranked[2].name = "O(log n)"
    /\ ranked[3].name = "O(n)"
    /\ fit.name = "O(1)" /\ fit.fourth = "results"

====
